---- MODULE Spec2Model ----
(***************************************************************************)
(* struct-metadata: the description contract Described<M>::metadata()      *)
(* for the built-in primitives (src/lib.rs) and for the nalgebra policies  *)
(* Matrix, Vector3, Rotation3 and Isometry3 (src/nalgebra/mod.rs), with    *)
(* the user structs of tests/nalgebra_.rs described by the derive step.    *)
(*                                                                         *)
(* Every call of the contract builds a fresh tree.  The state machine is a *)
(* caller that issues calls one after the other; cur is the latest call      *)
(* (type, metadata schema, returned tree) and kept an arbitrary earlier      *)
(* call the caller still holds, so any two calls of a session, however far *)
(* apart, are compared in some reachable state; interleaved   records that *)
(* other calls were made between the two.                                  *)
(***************************************************************************)
EXTENDS Naturals, Sequences, FiniteSets

VARIABLES cur, kept, interleaved

vars == <<cur, kept, interleaved>>

\* How many policies (Matrix, Rotation3, Isometry3) may be nested inside the
\* element type T of a described policy.
MaxNest == 0

(***************************************************************************)
(* Data model: Option, Descriptor, Entry, Kind                             *)
(***************************************************************************)

\* Option<Vec<&'static str>>: absent is not the empty list.
None == [tag |-> "None"]

Some(v) == [tag |-> "Some", val |-> v]

Descriptor(docs, metadata, kind) ==
    [docs |-> docs, metadata |-> metadata, kind |-> kind]

Entry(label, docs, metadata, type_info) ==
    [label |-> label, docs |-> docs, metadata |-> metadata,
     type_info |-> type_info, has_default |-> FALSE, aliases |-> <<>>]

Kind_Bool == [tag |-> "Bool"]

Kind_U64 == [tag |-> "U64"]

Kind_String == [tag |-> "String"]

Kind_F32 == [tag |-> "F32"]

Kind_Sequence(d) == [tag |-> "Sequence", elem |-> d]

Kind_Struct(name, children) ==
    [tag |-> "Struct", name |-> name, children |-> children]

Kind_Aliased(name, d) == [tag |-> "Aliased", name |-> name, kind |-> d]

(***************************************************************************)
(* Metadata schemas M and M::default()                                     *)
(***************************************************************************)

\* (), the default HashMap<&str, &str>, and the tests' Meta struct.
MetaTypes == {"Unit", "HashMap", "Meta"}

Meta(display_name, description) ==
    [schema |-> "Meta", display_name |-> display_name,
     description |-> description]

Default(M) ==
    CASE M = "Unit" -> [schema |-> "Unit"]
      [] M = "HashMap" -> [schema |-> "HashMap", entries |-> {}]
      [] M = "Meta" -> Meta("", "")

(***************************************************************************)
(* Described types                                                         *)
(***************************************************************************)

Ty_bool == [name |-> "bool"]

Ty_u64 == [name |-> "u64"]

Ty_String == [name |-> "String"]

Ty_f32 == [name |-> "f32"]

Prims == {Ty_bool, Ty_u64, Ty_String, Ty_f32}

Ty_Matrix(T, R, C, S) == [name |-> "Matrix", T |-> T, R |-> R, C |-> C, S |-> S]

\* nalgebra's aliases: Matrix3<T>, Vector3<T> and the heap-allocated DMatrix<T>.
Matrix3(T) == Ty_Matrix(T, "Const3", "Const3", "ArrayStorage")

Vector3(T) == Ty_Matrix(T, "Const3", "Const1", "ArrayStorage")

DMatrix(T) == Ty_Matrix(T, "Dyn", "Dyn", "VecStorage")

Rotation3(T) == [name |-> "Rotation3", T |-> T]

Isometry3(T) == [name |-> "Isometry3", T |-> T]

\* The (R, C, S) instantiations of Matrix the caller uses.
Shapes == {<<"Const3", "Const3", "ArrayStorage">>,
           <<"Const3", "Const1", "ArrayStorage">>,
           <<"Dyn", "Dyn", "VecStorage">>}

\* The primitive element types the caller instantiates the policies with.
Scalars == {Ty_f32, Ty_bool}

RECURSIVE ElemTypes(_)
\* The types T: Described<M> + Scalar with at most d nested policies; a
\* matrix used as an element owns its storage (Matrix3).
ElemTypes(d) ==
    IF d = 0 THEN Scalars
    ELSE LET E == ElemTypes(d - 1) IN
         E \cup {Matrix3(T) : T \in E}
           \cup {Rotation3(T) : T \in E}
           \cup {Isometry3(T) : T \in E}

(***************************************************************************)
(* The description contract                                                *)
(***************************************************************************)

RECURSIVE metadata(_, _)

\* Mutant: documentation present but empty instead of absent.
bool_metadata_emptydocs(M) == Descriptor(Some(<<>>), Default(M), Kind_Bool)

bool_metadata(M) == Descriptor(None, Default(M), Kind_Bool)

u64_metadata(M) == Descriptor(None, Default(M), Kind_U64)

String_metadata(M) == Descriptor(None, Default(M), Kind_String)

f32_metadata(M) == Descriptor(None, Default(M), Kind_F32)

\* Mutant: a matrix with more than one column described as rows of elements.
Matrix_metadata_rows(M, T, R, C, S) ==
    IF C = "Const1"
    THEN Descriptor(Some(<<"A matrix from nalgebra">>), Default(M),
                    Kind_Sequence(metadata(M, T)))
    ELSE Descriptor(Some(<<"A matrix from nalgebra">>), Default(M),
                    Kind_Sequence(Descriptor(None, Default(M),
                                             Kind_Sequence(metadata(M, T)))))

\* Mutant: the container documents its element's descriptor.
Matrix_metadata_inject(M, T, R, C, S) ==
    Descriptor(Some(<<"A matrix from nalgebra">>), Default(M),
               Kind_Sequence([metadata(M, T) EXCEPT
                                 !.docs = Some(<<"A matrix element">>)]))

Matrix_metadata(M, T, R, C, S) ==
    Descriptor(Some(<<"A matrix from nalgebra">>), Default(M),
               Kind_Sequence(metadata(M, T)))

\* Mutant: the rotation wraps its element type, not the 3x3 matrix.
Rotation3_metadata_direct(M, T) ==
    Descriptor(Some(<<"A 3D rotation matrix from nalgebra">>), Default(M),
               Kind_Sequence(metadata(M, T)))

\* Mutant: the rotation rebuilds the matrix level itself, without its docs.
Rotation3_metadata_flat(M, T) ==
    Descriptor(Some(<<"A 3D rotation matrix from nalgebra">>), Default(M),
               Kind_Sequence(Descriptor(None, Default(M),
                                        Kind_Sequence(metadata(M, T)))))

\* Mutant: a descriptor memoised per policy, whatever T and M are.
Rotation3_metadata_memo(M, T) ==
    IF cur.done /\ cur.ty.name = "Rotation3"
    THEN cur.out
    ELSE Descriptor(Some(<<"A 3D rotation matrix from nalgebra">>),
                    Default(M),
                    Kind_Sequence(Matrix_metadata(M, T, "Const3", "Const3",
                                                  "ArrayStorage")))

Rotation3_metadata(M, T) ==
    Descriptor(Some(<<"A 3D rotation matrix from nalgebra">>), Default(M),
               Kind_Sequence(Matrix_metadata(M, T, "Const3", "Const3",
                                             "ArrayStorage")))

\* Mutant: the children in the other order.
Isometry3_metadata_swapped(M, T) ==
    Descriptor(Some(<<"A 3D isometry from nalgebra">>), Default(M),
               Kind_Struct("Isometry3", <<
                   Entry("translation",
                         Some(<<"The translation component of the isometry">>),
                         Default(M),
                         Matrix_metadata(M, T, "Const3", "Const1",
                                         "ArrayStorage")),
                   Entry("rotation",
                         Some(<<"The rotation component of the isometry">>),
                         Default(M), Rotation3_metadata(M, T)) >>))

\* Mutant: the rotation child is left out.
Isometry3_metadata_norotation(M, T) ==
    Descriptor(Some(<<"A 3D isometry from nalgebra">>), Default(M),
               Kind_Struct("Isometry3", <<
                   Entry("translation",
                         Some(<<"The translation component of the isometry">>),
                         Default(M),
                         Matrix_metadata(M, T, "Const3", "Const1",
                                         "ArrayStorage")) >>))

\* Mutant: with the unit schema there is no payload to attach, and the
\* children are left out.
Isometry3_metadata_unit(M, T) ==
    Descriptor(Some(<<"A 3D isometry from nalgebra">>), Default(M),
               Kind_Struct("Isometry3",
                   IF M = "Unit" THEN <<>>
                   ELSE <<
                   Entry("rotation",
                         Some(<<"The rotation component of the isometry">>),
                         Default(M), Rotation3_metadata(M, T)),
                   Entry("translation",
                         Some(<<"The translation component of the isometry">>),
                         Default(M),
                         Matrix_metadata(M, T, "Const3", "Const1",
                                         "ArrayStorage")) >>))

Isometry3_metadata(M, T) ==
    Descriptor(Some(<<"A 3D isometry from nalgebra">>), Default(M),
               Kind_Struct("Isometry3", <<
                   Entry("rotation",
                         Some(<<"The rotation component of the isometry">>),
                         Default(M), Rotation3_metadata(M, T)),
                   Entry("translation",
                         Some(<<"The translation component of the isometry">>),
                         Default(M),
                         Matrix_metadata(M, T, "Const3", "Const1",
                                         "ArrayStorage")) >>))

\* Trait dispatch: the impl selected for the type.
metadata(M, ty) ==
    CASE ty.name = "bool" -> bool_metadata(M)
      [] ty.name = "u64" -> u64_metadata(M)
      [] ty.name = "String" -> String_metadata(M)
      [] ty.name = "f32" -> f32_metadata(M)
      [] ty.name = "Matrix" -> Matrix_metadata(M, ty.T, ty.R, ty.C, ty.S)
      [] ty.name = "Rotation3" -> Rotation3_metadata(M, ty.T)
      [] ty.name = "Isometry3" -> Isometry3_metadata(M, ty.T)

(***************************************************************************)
(* User structs and the derive step                                        *)
(***************************************************************************)

Field(label, docs, attrs, ty) ==
    [label |-> label, docs |-> docs, metadata |-> attrs, ty |-> ty]

Transformation ==
    [name |-> "Transformation",
     docs |-> Some(<<"# Transformation",
                     "A 3D transformation structure with a rotation and translation.",
                     "Includes metadata for nalgebra types.">>),
     metadata |-> Meta("Transformation",
                       "A 3D transformation with rotation and translation"),
     fields |-> <<
        Field("rotation",
              Some(<<"Rotation component as a 3D rotation matrix">>),
              Meta("Rotation Matrix",
                   "Rotation component as a 3D rotation matrix"),
              Rotation3(Ty_f32)),
        Field("translation",
              Some(<<"Translation component as a 3D vector">>),
              Meta("Translation Vector",
                   "Translation component as a 3D vector"),
              Vector3(Ty_f32)) >>]

LinearSegment ==
    [name |-> "LinearSegment",
     docs |-> Some(<<"# LinearSegment",
                     "A linear segment with start and end points represented as Isometry3<f32>.">>),
     metadata |-> Meta("Linear Segment",
                       "A linear segment with start and end points"),
     fields |-> <<
        Field("start", Some(<<"The start point of the segment">>),
              Meta("Start Point", "The start point of the segment"),
              Isometry3(Ty_f32)),
        Field("end", Some(<<"The end point of the segment">>),
              Meta("End Point", "The end point of the segment"),
              Isometry3(Ty_f32)) >>]

\* The field types of the two-field struct the caller declares besides the
\* two of the tests: a primitive and a struct-shaped composite.
FieldTypes == {Ty_bool, Isometry3(Ty_f32)}

\* struct Sample { first: A, second: B }, attributes on the struct and on
\* each field, no doc comment on the second field.
Sample(A, B) ==
    [name |-> "Sample",
     docs |-> Some(<<"A sample record">>),
     metadata |-> Meta("Sample", "A sample record"),
     fields |-> <<
        Field("first", Some(<<"The first field">>),
              Meta("First", "The first field"), A),
        Field("second", None,
              Meta("Second", "The second field"), B) >>]

UserStructs ==
    {Transformation, LinearSegment}
        \cup {Sample(A, B) : A \in FieldTypes, B \in FieldTypes}

\* Mutant: every field inherits the struct-level attributes.
Described_derive_inherit(M, decl) ==
    Descriptor(decl.docs, decl.metadata,
               Kind_Struct(decl.name,
                   [i \in 1..Len(decl.fields) |->
                       Entry(decl.fields[i].label, decl.fields[i].docs,
                             decl.metadata,
                             metadata(M, decl.fields[i].ty))]))

\* #[derive(Described)] #[metadata_type(Meta)]: the generated impl.
Described_derive(M, decl) ==
    Descriptor(decl.docs, decl.metadata,
               Kind_Struct(decl.name,
                   [i \in 1..Len(decl.fields) |->
                       Entry(decl.fields[i].label, decl.fields[i].docs,
                             decl.fields[i].metadata,
                             metadata(M, decl.fields[i].ty))]))

\* The type a declaration introduces.
Ty_User(decl) == [name |-> decl.name, decl |-> decl]

(***************************************************************************)
(* The caller                                                              *)
(***************************************************************************)

NoCall == [done |-> FALSE]

Call(ty, M, out) == [done |-> TRUE, ty |-> ty, M |-> M, out |-> out]

Init ==
    /\ cur = NoCall
    /\ kept = NoCall
    /\ interleaved = FALSE

\* A call replaces the latest one; when that one was itself made after the
\* held call, a call now lies between the held call and the new one.
Between == interleaved \/ (kept.done /\ cur # kept)

Describe_bool ==
    \E M \in MetaTypes :
        /\ cur' = Call(Ty_bool, M, bool_metadata(M))
        /\ interleaved' = Between
        /\ UNCHANGED kept

Describe_u64 ==
    \E M \in MetaTypes :
        /\ cur' = Call(Ty_u64, M, u64_metadata(M))
        /\ interleaved' = Between
        /\ UNCHANGED kept

Describe_String ==
    \E M \in MetaTypes :
        /\ cur' = Call(Ty_String, M, String_metadata(M))
        /\ interleaved' = Between
        /\ UNCHANGED kept

Describe_f32 ==
    \E M \in MetaTypes :
        /\ cur' = Call(Ty_f32, M, f32_metadata(M))
        /\ interleaved' = Between
        /\ UNCHANGED kept

Describe_Matrix ==
    \E M \in MetaTypes, T \in ElemTypes(MaxNest), s \in Shapes :
        /\ cur' = Call(Ty_Matrix(T, s[1], s[2], s[3]), M,
                       Matrix_metadata(M, T, s[1], s[2], s[3]))
        /\ interleaved' = Between
        /\ UNCHANGED kept

Describe_Rotation3 ==
    \E M \in MetaTypes, T \in ElemTypes(MaxNest) :
        /\ cur' = Call(Rotation3(T), M, Rotation3_metadata(M, T))
        /\ interleaved' = Between
        /\ UNCHANGED kept

Describe_Isometry3 ==
    \E M \in MetaTypes, T \in ElemTypes(MaxNest) :
        /\ cur' = Call(Isometry3(T), M, Isometry3_metadata(M, T))
        /\ interleaved' = Between
        /\ UNCHANGED kept

Describe_derived ==
    \E decl \in UserStructs :
        /\ cur' = Call(Ty_User(decl), "Meta", Described_derive("Meta", decl))
        /\ interleaved' = Between
        /\ UNCHANGED kept

\* The caller holds on to the tree the latest call returned.
Hold ==
    /\ cur.done
    /\ kept' = cur
    /\ interleaved' = FALSE
    /\ UNCHANGED cur

Next ==
    \/ Describe_bool
    \/ Describe_u64
    \/ Describe_String
    \/ Describe_f32
    \/ Describe_Matrix
    \/ Describe_Rotation3
    \/ Describe_Isometry3
    \/ Describe_derived
    \/ Hold

Spec == Init /\ [][Next]_vars

\* The calls the caller holds.
Calls == {c \in {cur, kept} : c.done}

(***************************************************************************)
(* Readings of a returned tree                                             *)
(***************************************************************************)

PrimNames == {"bool", "u64", "String", "f32"}

PrimTags == {"Bool", "U64", "String", "F32"}

\* The primitive variant expected for a primitive type.
ExpectedKind(ty) ==
    CASE ty.name = "bool" -> [tag |-> "Bool"]
      [] ty.name = "u64" -> [tag |-> "U64"]
      [] ty.name = "String" -> [tag |-> "String"]
      [] ty.name = "f32" -> [tag |-> "F32"]

IsUser(ty) == "decl" \in DOMAIN ty

RECURSIVE Homogeneous(_)
\* A container built from Matrix and Rotation3 only, over a primitive.
Homogeneous(ty) ==
    CASE ty.name \in PrimNames -> TRUE
      [] ty.name \in {"Matrix", "Rotation3"} -> Homogeneous(ty.T)
      [] OTHER -> FALSE

RECURSIVE Base(_)
\* The element primitive of a homogeneous container.
Base(ty) == IF ty.name \in PrimNames THEN ty ELSE Base(ty.T)

RECURSIVE Dimensions(_)
\* The number of dimensions: a column vector has one, a matrix or a
\* rotation matrix two.
Dimensions(ty) ==
    CASE ty.name \in PrimNames -> 0
      [] ty.name = "Matrix" ->
            (IF ty.C = "Const1" THEN 1 ELSE 2) + Dimensions(ty.T)
      [] ty.name = "Rotation3" -> 2 + Dimensions(ty.T)

RECURSIVE Policies(_)
\* The number of container policies applied: Matrix is one, Rotation3 is
\* one on top of the 3x3 Matrix it is described as.
Policies(ty) ==
    CASE ty.name \in PrimNames -> 0
      [] ty.name = "Matrix" -> 1 + Policies(ty.T)
      [] ty.name = "Rotation3" -> 2 + Policies(ty.T)

RECURSIVE SeqDepth(_)
\* The number of Sequence wrappers at the top of a tree.
SeqDepth(d) ==
    IF d.kind.tag = "Sequence" THEN 1 + SeqDepth(d.kind.elem) ELSE 0

RECURSIVE Innermost(_)
\* The descriptor below the Sequence wrappers.
Innermost(d) ==
    IF d.kind.tag = "Sequence" THEN Innermost(d.kind.elem) ELSE d

RECURSIVE Shape(_)
\* The tree with docs and metadata dropped at every node.
Shape(d) ==
    CASE d.kind.tag \in PrimTags -> [tag |-> d.kind.tag]
      [] d.kind.tag = "Sequence" ->
            [tag |-> "Sequence", elem |-> Shape(d.kind.elem)]
      [] d.kind.tag = "Aliased" ->
            [tag |-> "Aliased", name |-> d.kind.name,
             kind |-> Shape(d.kind.kind)]
      [] d.kind.tag = "Struct" ->
            [tag |-> "Struct", name |-> d.kind.name,
             children |->
                [i \in 1..Len(d.kind.children) |->
                    [label |-> d.kind.children[i].label,
                     type_info |-> Shape(d.kind.children[i].type_info)]]]

RECURSIVE LeavesBare(_, _)
\* Every primitive leaf of the tree has no docs and the default payload of M.
LeavesBare(d, M) ==
    CASE d.kind.tag \in PrimTags ->
            d.docs = [tag |-> "None"] /\ d.metadata = Default(M)
      [] d.kind.tag = "Sequence" -> LeavesBare(d.kind.elem, M)
      [] d.kind.tag = "Aliased" -> LeavesBare(d.kind.kind, M)
      [] d.kind.tag = "Struct" ->
            \A i \in 1..Len(d.kind.children) :
                LeavesBare(d.kind.children[i].type_info, M)

Labels(d) == [i \in 1..Len(d.kind.children) |-> d.kind.children[i].label]

(***************************************************************************)
(* Claims                                                                  *)
(***************************************************************************)

\* C1: describing a primitive (bool, u64, String, f32) with any schema M
\* returns the matching primitive variant, docs absent (not the empty list)
\* and metadata = M::default().
C1_PrimitiveTotality ==
    \A c \in Calls :
        c.ty.name \in PrimNames =>
            /\ c.out.kind = ExpectedKind(c.ty)
            /\ c.out.docs = [tag |-> "None"]
            /\ c.out.docs # [tag |-> "Some", val |-> <<>>]
            /\ c.out.metadata = Default(c.M)

C1_Witness ==
    /\ cur.done /\ cur.ty.name = "bool" /\ cur.M = "Meta"
    /\ kept.done /\ kept.ty.name = "f32" /\ kept.M = "Unit"

\* C2: describing Matrix<T, R, C, S> returns docs ["A matrix from nalgebra"],
\* metadata = M::default() and kind = Sequence(d), d the descriptor of T
\* (kind F32 for f32), the same for every R, C and S.
C2_MatrixDescriptor ==
    /\ \A c \in Calls :
          c.ty.name = "Matrix" =>
              /\ c.out.docs = [tag |-> "Some",
                               val |-> <<"A matrix from nalgebra">>]
              /\ c.out.metadata = Default(c.M)
              /\ c.out.kind.tag = "Sequence"
              /\ c.out.kind.elem = metadata(c.M, c.ty.T)
              /\ c.ty.T.name = "f32" =>
                    c.out.kind.elem.kind = [tag |-> "F32"]
    /\ \A c1 \in Calls, c2 \in Calls :
          /\ c1.ty.name = "Matrix" /\ c2.ty.name = "Matrix"
          /\ c1.ty.T = c2.ty.T /\ c1.M = c2.M
          => c1.out = c2.out

C2_Witness ==
    /\ cur.done /\ kept.done
    /\ cur.ty = Matrix3(Ty_f32) /\ kept.ty = Vector3(Ty_f32)
    /\ cur.M = kept.M

\* C3 as claimed: a k-dimensional homogeneous container yields exactly k
\* nested Sequence wrappers around the element primitive's descriptor, so
\* Matrix3<f32> and Rotation3<f32> both yield Sequence(Sequence(F32)).
C3_DepthIsDimension ==
    \A c \in Calls :
        Homogeneous(c.ty) =>
            /\ SeqDepth(c.out) = Dimensions(c.ty)
            /\ Innermost(c.out).kind = ExpectedKind(Base(c.ty))

\* C3 as amended: the number of nested Sequence wrappers is the number of
\* container policies applied, one per Matrix whatever its dimensions and
\* one more for Rotation3, the innermost wrapping the element primitive's
\* descriptor: Matrix3<f32> and Vector3<f32> yield Sequence(F32),
\* Rotation3<f32> yields Sequence(Sequence(F32)).
C3_DepthIsPolicies ==
    \A c \in Calls :
        Homogeneous(c.ty) =>
            /\ SeqDepth(c.out) = Policies(c.ty)
            /\ Innermost(c.out).kind = ExpectedKind(Base(c.ty))
            /\ c.ty \in {Matrix3(Ty_f32), Vector3(Ty_f32)} =>
                  Shape(c.out) = [tag |-> "Sequence", elem |-> [tag |-> "F32"]]
            /\ c.ty = Rotation3(Ty_f32) =>
                  Shape(c.out) =
                      [tag |-> "Sequence",
                       elem |-> [tag |-> "Sequence", elem |-> [tag |-> "F32"]]]

C3_Witness ==
    /\ cur.done /\ cur.ty = Matrix3(Ty_f32)
    /\ kept.done /\ kept.ty = Rotation3(Ty_f32)

\* C4: describing Isometry3<T> returns docs ["A 3D isometry from nalgebra"]
\* and a Struct named "Isometry3" with exactly the children "rotation" then
\* "translation", each with its docs and a Sequence as type_info.kind, the
\* labels pairwise distinct.
C4_IsometryStruct ==
    \A c \in Calls :
        c.ty.name = "Isometry3" =>
            LET k == c.out.kind IN
            /\ c.out.docs = [tag |-> "Some",
                             val |-> <<"A 3D isometry from nalgebra">>]
            /\ k.tag = "Struct"
            /\ k.name = "Isometry3"
            /\ Len(k.children) = 2
            /\ k.children[1].label = "rotation"
            /\ k.children[1].docs =
                  [tag |-> "Some",
                   val |-> <<"The rotation component of the isometry">>]
            /\ k.children[2].label = "translation"
            /\ k.children[2].docs =
                  [tag |-> "Some",
                   val |-> <<"The translation component of the isometry">>]
            /\ \A i \in 1..Len(k.children) :
                  k.children[i].type_info.kind.tag = "Sequence"
            /\ \A i \in 1..Len(k.children), j \in 1..Len(k.children) :
                  i # j => k.children[i].label # k.children[j].label

C4_Witness == cur.done /\ cur.ty = Isometry3(Ty_f32) /\ cur.M = "Unit"

C6_ShapeIndependentOfM ==
    \A c1 \in Calls, c2 \in Calls :
        c1.ty = c2.ty => Shape(c1.out) = Shape(c2.out)

C6_Witness ==
    /\ cur.done /\ kept.done
    /\ cur.ty = kept.ty /\ cur.ty = Isometry3(Ty_f32)
    /\ cur.M = "Unit" /\ kept.M = "Meta"

\* C7: for a derived user struct the top-level metadata is the struct-level
\* attributes and each child's metadata is that field's own attributes,
\* never the struct's nor a sibling's.
C7_AttributesStayPut ==
    \A c \in Calls :
        IsUser(c.ty) =>
            LET decl == c.ty.decl
                ch == c.out.kind.children
            IN
            /\ c.out.metadata = decl.metadata
            /\ c.out.kind.tag = "Struct"
            /\ Len(ch) = Len(decl.fields)
            /\ \A i \in 1..Len(ch) :
                  /\ ch[i].metadata = decl.fields[i].metadata
                  /\ ch[i].metadata # c.out.metadata
                  /\ \A j \in 1..Len(ch) :
                        i # j => ch[i].metadata # ch[j].metadata

C7_Witness ==
    /\ cur.done /\ cur.ty = Ty_User(Transformation)
    /\ kept.done /\ kept.ty = Ty_User(LinearSegment)

\* C8: a field whose type is described as a struct (an Isometry3 field) has
\* type_info.kind = Struct with the inner type's children intact and in
\* order ("rotation" then "translation"): type_info equals what the inner
\* type's own metadata() returns for the same M.
C8_StructOfStructs ==
    \A c \in Calls :
        IsUser(c.ty) =>
            \A i \in 1..Len(c.ty.decl.fields) :
                LET fty == c.ty.decl.fields[i].ty
                    info == c.out.kind.children[i].type_info
                IN
                fty.name = "Isometry3" =>
                    /\ info.kind.tag = "Struct"
                    /\ Labels(info) = <<"rotation", "translation">>
                    /\ info = metadata(c.M, fty)
                    /\ \A c2 \in Calls :
                          (c2.ty = fty /\ c2.M = c.M) => info = c2.out

C8_Witness ==
    /\ cur.done /\ cur.ty = Ty_User(LinearSegment)
    /\ kept.done /\ kept.ty = Isometry3(Ty_f32) /\ kept.M = "Meta"

\* C9: a container supplies only its own docs and wraps its constituent's
\* descriptor unchanged: Matrix wraps T's descriptor, Rotation3 (docs
\* ["A 3D rotation matrix from nalgebra"]) wraps the 3x3 Matrix descriptor
\* with its docs, and the Isometry3 entries hold the Rotation3 and Vector3
\* descriptors.
C9_ContainerDefers ==
    \A c \in Calls :
        /\ c.ty.name = "Matrix" =>
              /\ c.out.kind.elem = metadata(c.M, c.ty.T)
              /\ \A c2 \in Calls :
                    (c2.ty = c.ty.T /\ c2.M = c.M) =>
                        c.out.kind.elem = c2.out
        /\ c.ty.name = "Rotation3" =>
              /\ c.out.docs =
                    [tag |-> "Some",
                     val |-> <<"A 3D rotation matrix from nalgebra">>]
              /\ c.out.kind.tag = "Sequence"
              /\ c.out.kind.elem.docs =
                    [tag |-> "Some", val |-> <<"A matrix from nalgebra">>]
              /\ c.out.kind.elem = metadata(c.M, Matrix3(c.ty.T))
              /\ \A c2 \in Calls :
                    (c2.ty = Matrix3(c.ty.T) /\ c2.M = c.M) =>
                        c.out.kind.elem = c2.out
        /\ c.ty.name = "Isometry3" =>
              /\ c.out.kind.children[1].type_info =
                    metadata(c.M, Rotation3(c.ty.T))
              /\ c.out.kind.children[2].type_info =
                    metadata(c.M, Vector3(c.ty.T))
              /\ \A c2 \in Calls :
                    /\ (c2.ty = Rotation3(c.ty.T) /\ c2.M = c.M) =>
                          c.out.kind.children[1].type_info = c2.out
                    /\ (c2.ty = Vector3(c.ty.T) /\ c2.M = c.M) =>
                          c.out.kind.children[2].type_info = c2.out

C9_Witness ==
    /\ cur.done /\ cur.ty = Rotation3(Ty_f32)
    /\ kept.done /\ kept.ty = Matrix3(Ty_f32)
    /\ cur.M = kept.M

\* C10: in every returned tree every primitive leaf has docs absent and
\* metadata = M::default(); docs and metadata overrides sit on the Entry or
\* on the container or struct descriptor.
C10_LeavesBare ==
    \A c \in Calls : LeavesBare(c.out, c.M)

C10_Witness ==
    /\ cur.done /\ IsUser(cur.ty)
    /\ cur.out.kind.children[1].type_info.kind.tag \in PrimTags
    /\ cur.out.kind.children[1].docs # [tag |-> "None"]
    /\ cur.out.kind.children[1].metadata # Default(cur.M)
    /\ kept.done /\ kept.ty.name = "Matrix"

====
